---- MODULE Spec2Model ----
(***************************************************************************)
(* Model of bin/calculate-cost-basis.py (the pooled cost-basis engine) of  *)
(* rsu-tax: release loading, exchange-rate attachment, sales loading with  *)
(* column resolution, the merge/sort of the timeline, the Section 104 pool *)
(* fold and the report output; and of bin/combine.py, which gathers the    *)
(* USD row of each monthly exchange-rate file.                             *)
(*                                                                         *)
(* Numbers.  The program computes in floats (IEEE 754 binary64); every     *)
(* operation here returns the float nearest to the exact result, as the    *)
(* hardware does.  The missing value (None / NaN of a pandas column) is    *)
(* NaN.                                                                    *)
(* Dates are day numbers: only their order is used by the program.         *)
(***************************************************************************)
EXTENDS Integers, Sequences, FiniteSets, TLC

VARIABLES
    pc,         \* position of main(): which statement block runs next
    salesArg,   \* args.sales: "None", "Empty" (the empty string) or "Path"
    rel,        \* the releases DataFrame rows
    relCols,    \* the releases DataFrame columns
    xr,         \* the exchange-rate DataFrame rows (Start_dt, End_dt, rate)
    s,          \* the normalised sales DataFrame rows
    events,     \* the merged, sorted, priced timeline
    i,          \* number of events the fold has consumed so far
    gains_series,
    holdings_gbp_series,
    holdings_units,
    holdings_gbp,
    output,     \* rows written to stdout by print_events
    stderr,     \* row indexes named by the fold's [ERROR] line
    err,        \* the exception that ended the run, if any
    log,        \* history: the operations performed so far, in order
    df_columns, \* load_sales: df.columns of the sales file being resolved
    found_cols, \* load_sales: the date_col, shares_col, price_col it found
    cpc,        \* combine.py: position of main() / get_usd_row()
    argv,       \* combine.py: argv[1:], each file as its list of lines
    path_ix,    \* combine.py: index in argv[1:] of the file being read
    fpos,       \* combine.py: lines of the open file consumed so far
    reads,      \* combine.py: readline() calls made on the open file
    wrote_header, \* combine.py: writer.writeheader() has run
    stdout_rows,  \* combine.py: rows written by writer.writerow
    not_found,  \* combine.py: files named by "no USD entry found" lines
    err_code    \* combine.py: err_code, then the value main() returned

mainVars == <<pc, salesArg, rel, relCols, xr, s, events, i, gains_series,
          holdings_gbp_series, holdings_units, holdings_gbp, output, stderr,
          err, log>>

resolveVars == <<df_columns, found_cols>>

combineVars == <<cpc, argv, path_ix, fpos, reads, wrote_header, stdout_rows,
                 not_found, err_code>>

vars == <<mainVars, resolveVars, combineVars>>

----------------------------------------------------------------------------
(* Bounds of the model *)

MaxEvents == 3

MaxRanges == 1

MaxDate == 2

----------------------------------------------------------------------------
(* Natural numbers of any size: the list of their digits in base 2^15,     *)
(* lowest digit first, without leading zero digits; 0 is the empty list    *)

LIMB_BITS == 15

BASE == 32768

Pow2Table ==
    <<1, 2, 4, 8, 16, 32, 64, 128, 256, 512, 1024, 2048, 4096, 8192, 16384>>

\* 2^k for 0 <= k < LIMB_BITS
Pow2(k) == Pow2Table[k + 1]

Max(a, b) == IF a >= b THEN a ELSE b

Min(a, b) == IF a <= b THEN a ELSE b

Limb(a, k) == IF k <= Len(a) THEN a[k] ELSE 0

RECURSIVE BTrim(_)
BTrim(a) ==
    IF a # << >> /\ a[Len(a)] = 0 THEN BTrim(SubSeq(a, 1, Len(a) - 1)) ELSE a

\* the digits of an integer n >= 0
RECURSIVE BFromInt(_)
BFromInt(n) == IF n = 0 THEN << >> ELSE <<n % BASE>> \o BFromInt(n \div BASE)

RECURSIVE BAddFrom(_, _, _, _)
BAddFrom(a, b, k, carry) ==
    IF k > Len(a) /\ k > Len(b)
    THEN IF carry = 0 THEN << >> ELSE <<carry>>
    ELSE LET t == Limb(a, k) + Limb(b, k) + carry
         IN  <<t % BASE>> \o BAddFrom(a, b, k + 1, t \div BASE)

BAdd(a, b) == BAddFrom(a, b, 1, 0)

RECURSIVE BSubFrom(_, _, _, _)
BSubFrom(a, b, k, borrow) ==
    IF k > Len(a) THEN << >>
    ELSE LET t == a[k] - Limb(b, k) - borrow
         IN  IF t < 0 THEN <<t + BASE>> \o BSubFrom(a, b, k + 1, 1)
             ELSE <<t>> \o BSubFrom(a, b, k + 1, 0)

\* a - b for a >= b
BSub(a, b) == BTrim(BSubFrom(a, b, 1, 0))

RECURSIVE BCmpFrom(_, _, _)
BCmpFrom(a, b, k) ==
    IF k = 0 THEN 0
    ELSE IF a[k] < b[k] THEN -1
    ELSE IF a[k] > b[k] THEN 1
    ELSE BCmpFrom(a, b, k - 1)

\* -1, 0 or 1 as a < b, a = b or a > b
BCmp(a, b) ==
    IF Len(a) < Len(b) THEN -1
    ELSE IF Len(a) > Len(b) THEN 1
    ELSE BCmpFrom(a, b, Len(a))

RECURSIVE BMulSmallFrom(_, _, _, _)
BMulSmallFrom(a, d, k, carry) ==
    IF k > Len(a)
    THEN IF carry = 0 THEN << >> ELSE <<carry>>
    ELSE LET t == a[k] * d + carry
         IN  <<t % BASE>> \o BMulSmallFrom(a, d, k + 1, t \div BASE)

\* a * d for one digit d
BMulSmall(a, d) == IF d = 0 THEN << >> ELSE BMulSmallFrom(a, d, 1, 0)

RECURSIVE BMul(_, _)
BMul(a, b) ==
    IF a = << >> \/ b = << >> THEN << >>
    ELSE BAdd(BMulSmall(a, b[1]), BTrim(<<0>> \o BMul(a, Tail(b))))

\* a * 2^k
BShl(a, k) ==
    IF a = << >> \/ k = 0 THEN a
    ELSE [j \in 1..(k \div LIMB_BITS) |-> 0] \o BMulSmall(a, Pow2(k % LIMB_BITS))

\* a \div 2^k
BShr(a, k) ==
    IF k = 0 THEN a
    ELSE LET x == SubSeq(a, (k \div LIMB_BITS) + 1, Len(a))
             p == Pow2(k % LIMB_BITS)
         IN  BTrim([j \in 1..Len(x) |->
                       (x[j] \div p) + (Limb(x, j + 1) % p) * (BASE \div p)])

\* a % 2^k
BLow(a, k) ==
    LET q == k \div LIMB_BITS
    IN  IF q >= Len(a) THEN a
        ELSE BTrim(SubSeq(a, 1, q) \o <<a[q + 1] % Pow2(k % LIMB_BITS)>>)

RECURSIVE IntBitLen(_)
IntBitLen(n) == IF n = 0 THEN 0 ELSE 1 + IntBitLen(n \div 2)

\* the number of binary digits of a
BBitLen(a) ==
    IF a = << >> THEN 0
    ELSE LIMB_BITS * (Len(a) - 1) + IntBitLen(a[Len(a)])

RECURSIVE IntTrailingZeros(_)
IntTrailingZeros(n) == IF n % 2 = 1 THEN 0 ELSE 1 + IntTrailingZeros(n \div 2)

\* the number of zero binary digits at the low end of a # 0
RECURSIVE BTrailingZeros(_)
BTrailingZeros(a) ==
    IF a[1] = 0 THEN LIMB_BITS + BTrailingZeros(Tail(a))
    ELSE IntTrailingZeros(a[1])

BIsOdd(a) == a # << >> /\ a[1] % 2 = 1

\* binary digit j (0 the lowest) of a
BBit(a, j) == (Limb(a, (j \div LIMB_BITS) + 1) \div Pow2(j % LIMB_BITS)) % 2

\* division by one digit d, from digit k down, r the remainder carried in
RECURSIVE BDivSmallFrom(_, _, _, _)
BDivSmallFrom(a, d, k, r) ==
    IF k = 0 THEN [q |-> << >>, r |-> r]
    ELSE LET cur == r * BASE + a[k]
             low == BDivSmallFrom(a, d, k - 1, cur % d)
         IN  [q |-> Append(low.q, cur \div d), r |-> low.r]

\* long division, one binary digit at a time, from digit j down
RECURSIVE BDivLongFrom(_, _, _, _, _)
BDivLongFrom(a, d, j, q, r) ==
    IF j < 0 THEN [q |-> q, r |-> r]
    ELSE LET r2 == BAdd(BShl(r, 1), BFromInt(BBit(a, j)))
         IN  IF BCmp(r2, d) >= 0
             THEN BDivLongFrom(a, d, j - 1, BAdd(BShl(q, 1), <<1>>), BSub(r2, d))
             ELSE BDivLongFrom(a, d, j - 1, BShl(q, 1), r2)

\* quotient and remainder of a by d # 0
BDivMod(a, d) ==
    IF Len(d) = 1
    THEN LET res == BDivSmallFrom(a, d[1], Len(a), 0)
         IN  [q |-> BTrim(res.q), r |-> BFromInt(res.r)]
    ELSE BDivLongFrom(a, d, BBitLen(a) - 1, << >>, << >>)

----------------------------------------------------------------------------
(* Float arithmetic: IEEE 754 binary64, round to nearest, ties to even.    *)
(* A finite float is (-1)^sign * man * 2^exp with man odd or zero.         *)

\* binary digits of a significand
MANT_DIG == 53

\* exponent of the smallest positive float, 2^-1074
MIN_EXP == -1074

\* every finite float is below 2^1024
MAX_EXP == 1024

NaN == [kind |-> "nan", sign |-> 0, man |-> << >>, exp |-> 0]

Inf(sign) == [kind |-> "inf", sign |-> sign, man |-> << >>, exp |-> 0]

IsNaN(x) == x.kind = "nan"

IsInf(x) == x.kind = "inf"

FZero(sign) == [kind |-> "fin", sign |-> sign, man |-> << >>, exp |-> 0]

\* the float (-1)^sign * m * 2^e, known to be representable
Canon(sign, m, e) ==
    IF m = << >> THEN FZero(sign)
    ELSE IF m[1] % 2 = 1
    THEN [kind |-> "fin", sign |-> sign, man |-> m, exp |-> e]
    ELSE LET tz == BTrailingZeros(m)
         IN  [kind |-> "fin", sign |-> sign, man |-> BShr(m, tz), exp |-> e + tz]

\* the float nearest to (-1)^sign * m * 2^e, ties to the even significand;
\* infinity when that is 2^1024 or more
RoundF(sign, m, e) ==
    IF m = << >> THEN FZero(sign)
    ELSE LET len == BBitLen(m)
             q == Max(e + len - MANT_DIG, MIN_EXP)
         IN  IF q <= e
             THEN IF e + len > MAX_EXP THEN Inf(sign) ELSE Canon(sign, m, e)
             ELSE LET sh == q - e
                      kept == BShr(m, sh)
                      c == BCmp(BLow(m, sh), BShl(<<1>>, sh - 1))
                      up == c > 0 \/ (c = 0 /\ BIsOdd(kept))
                      r == IF up THEN BAdd(kept, <<1>>) ELSE kept
                  IN  IF q + BBitLen(r) > MAX_EXP THEN Inf(sign)
                      ELSE Canon(sign, r, q)

\* float(k) of an integer k
Num(k) == Canon(IF k < 0 THEN 1 ELSE 0, BFromInt(IF k < 0 THEN -k ELSE k), 0)

Zero == Num(0)

\* x == 0.0 (true of -0.0 too)
IsZero(x) == x.kind = "fin" /\ x.man = << >>

Neg(x) == IF IsNaN(x) THEN NaN ELSE [x EXCEPT !.sign = 1 - x.sign]

\* x + y of two finite floats
AddFinite(x, y) ==
    IF IsZero(x) /\ IsZero(y)
    THEN FZero(IF x.sign = 1 /\ y.sign = 1 THEN 1 ELSE 0)
    ELSE IF IsZero(x) THEN y
    ELSE IF IsZero(y) THEN x
    ELSE LET e == Min(x.exp, y.exp)
             a == BShl(x.man, x.exp - e)
             b == BShl(y.man, y.exp - e)
             c == BCmp(a, b)
         IN  IF x.sign = y.sign THEN RoundF(x.sign, BAdd(a, b), e)
             ELSE IF c = 0 THEN FZero(0)
             ELSE IF c > 0 THEN RoundF(x.sign, BSub(a, b), e)
             ELSE RoundF(y.sign, BSub(b, a), e)

Add(x, y) ==
    IF IsNaN(x) \/ IsNaN(y) THEN NaN
    ELSE IF IsInf(x) /\ IsInf(y) THEN IF x.sign = y.sign THEN x ELSE NaN
    ELSE IF IsInf(x) THEN x
    ELSE IF IsInf(y) THEN y
    ELSE AddFinite(x, y)

Sub(x, y) == Add(x, Neg(y))

Mul(x, y) ==
    LET sign == (x.sign + y.sign) % 2
    IN  IF IsNaN(x) \/ IsNaN(y) THEN NaN
        ELSE IF IsInf(x) \/ IsInf(y)
        THEN IF IsZero(x) \/ IsZero(y) THEN NaN ELSE Inf(sign)
        ELSE RoundF(sign, BMul(x.man, y.man), x.exp + y.exp)

\* x / y of two finite floats, y # 0: the quotient of the significands is
\* taken to 3 digits more than a significand holds, and a remainder is
\* recorded in one further digit
DivFinite(x, y) ==
    LET sign == (x.sign + y.sign) % 2
        k == Max(0, MANT_DIG + 3 + BBitLen(y.man) - BBitLen(x.man))
        dm == BDivMod(BShl(x.man, k), y.man)
        e == x.exp - y.exp - k
    IN  IF IsZero(x) THEN FZero(sign)
        ELSE IF dm.r = << >> THEN RoundF(sign, dm.q, e)
        ELSE RoundF(sign, BAdd(BShl(dm.q, 1), <<1>>), e - 1)

\* x / y as IEEE 754 and the division of two pandas columns define it: a
\* zero divisor gives an infinity, or NaN for 0/0.  (Python's own float
\* division raises ZeroDivisionError on a zero divisor instead; SellStep
\* raises before it divides.)
Div(x, y) ==
    LET sign == (x.sign + y.sign) % 2
    IN  IF IsNaN(x) \/ IsNaN(y) THEN NaN
        ELSE IF IsInf(x) THEN IF IsInf(y) THEN NaN ELSE Inf(sign)
        ELSE IF IsInf(y) THEN FZero(sign)
        ELSE IF IsZero(y) THEN IF IsZero(x) THEN NaN ELSE Inf(sign)
        ELSE DivFinite(x, y)

\* |x| < |y| for finite x, y
LessMagnitude(x, y) ==
    IF IsZero(y) THEN FALSE
    ELSE IF IsZero(x) THEN TRUE
    ELSE LET tx == x.exp + BBitLen(x.man)
             ty == y.exp + BBitLen(y.man)
             e == Min(x.exp, y.exp)
         IN  IF tx # ty THEN tx < ty
             ELSE BCmp(BShl(x.man, x.exp - e), BShl(y.man, y.exp - e)) < 0

\* x < y; every comparison with NaN is false
Less(x, y) ==
    IF IsNaN(x) \/ IsNaN(y) THEN FALSE
    ELSE IF IsInf(x) THEN x.sign = 1 /\ ~(IsInf(y) /\ y.sign = 1)
    ELSE IF IsInf(y) THEN y.sign = 0
    ELSE IF IsZero(x) /\ IsZero(y) THEN FALSE
    ELSE IF x.sign = 1 /\ y.sign = 0 THEN TRUE
    ELSE IF x.sign = 0 /\ y.sign = 1 THEN FALSE
    ELSE IF x.sign = 0 THEN LessMagnitude(x, y)
    ELSE LessMagnitude(y, x)

\* float(v or 0.0): a falsy value (0.0 or -0.0) becomes 0.0; NaN is truthy
OrZero(v) == IF IsZero(v) THEN Zero ELSE v

----------------------------------------------------------------------------
(* Column labels *)

TYPE_LABEL == "Type"
DATE_LABEL == "Date"
GRANTED_LABEL == "Granted"
SOLD_LABEL == "Sold"
ISSUED_LABEL == "Issued"
RELEASE_DATE_LABEL == "Release Date"
PRICE_PER_SHARE_USD_LABEL == "Price per share ($)"
GBP_USD_LABEL == "GBP/USD"
DATE_DT == "Date_dt"

\* the header parse-stock-releases.py writes
ParserFieldnames ==
    <<"Date", "Granted", "Withheld", "Issued", "Price per share ($)">>

required_rel ==
    <<GRANTED_LABEL, SOLD_LABEL, ISSUED_LABEL, PRICE_PER_SHARE_USD_LABEL>>

Range(f) == {f[k] : k \in DOMAIN f}

\* position of the first occurrence of x in seq (0 when absent)
IndexOf(seq, x) ==
    IF x \in Range(seq)
    THEN CHOOSE k \in 1..Len(seq) : seq[k] = x /\ \A j \in 1..(k-1) : seq[j] # x
    ELSE 0

----------------------------------------------------------------------------
(* Exchange rate lookup (inclusive ranges) *)

Covers(r, d) == r.Start_dt <= d /\ d <= r.End_dt

\* a lookup that lets the last covering row win
find_rate_last(d, exrates) ==
    IF \E k \in 1..Len(exrates) : Covers(exrates[k], d)
    THEN LET k == CHOOSE k \in 1..Len(exrates) :
                    /\ Covers(exrates[k], d)
                    /\ \A j \in (k+1)..Len(exrates) : ~Covers(exrates[j], d)
         IN  exrates[k].rate
    ELSE NaN

\* find_rate: the rate of the first row, in row order, whose range covers d;
\* None (the missing value) when no row covers d
find_rate(d, exrates) ==
    IF \E k \in 1..Len(exrates) : Covers(exrates[k], d)
    THEN LET k == CHOOSE k \in 1..Len(exrates) :
                    /\ Covers(exrates[k], d)
                    /\ \A j \in 1..(k-1) : ~Covers(exrates[j], d)
         IN  exrates[k].rate
    ELSE NaN

\* attach_rate: find_rate applied to every date of the column; returns the
\* column of the rates found
attach_rate(df_dates, exrates) ==
    [k \in 1..Len(df_dates) |-> find_rate(df_dates[k], exrates)]

\* the Date_dt column of a DataFrame
DateColumn(rows) == [k \in 1..Len(rows) |-> rows[k].Date_dt]

----------------------------------------------------------------------------
(* Sales CSV helpers.  A column name is a sequence of characters, so that  *)
(* lower-casing and substring search are computed as str.lower and `in`.   *)

UpperChars == <<"A", "B", "C", "D", "E", "F", "G", "H", "I", "J", "K", "L", "M",
                "N", "O", "P", "Q", "R", "S", "T", "U", "V", "W", "X", "Y", "Z">>

LowerChars == <<"a", "b", "c", "d", "e", "f", "g", "h", "i", "j", "k", "l", "m",
                "n", "o", "p", "q", "r", "s", "t", "u", "v", "w", "x", "y", "z">>

LowerChar(c) == IF c \in Range(UpperChars)
                THEN LowerChars[IndexOf(UpperChars, c)]
                ELSE c

\* str.lower()
Lower(name) == [k \in 1..Len(name) |-> LowerChar(name[k])]

\* sub in str
Contains(sub, str) ==
    \E k \in 1..(Len(str) - Len(sub) + 1) : SubSeq(str, k, k + Len(sub) - 1) = sub

CANDIDATE_DATE ==
    << <<"d", "a", "t", "e">>,
       <<"s", "a", "l", "e", " ", "d", "a", "t", "e">>,
       <<"t", "r", "a", "n", "s", "a", "c", "t", "i", "o", "n", " ", "d", "a", "t", "e">> >>

CANDIDATE_SHARES ==
    << <<"s", "h", "a", "r", "e", "s">>,
       <<"q", "u", "a", "n", "t", "i", "t", "y">>,
       <<"u", "n", "i", "t", "s">>,
       <<"i", "s", "s", "u", "e", "d">>,
       <<"s", "h", "a", "r", "e", "s", " ", "s", "o", "l", "d">>,
       <<"q", "t", "y">> >>

CANDIDATE_PRICE ==
    << <<"p", "r", "i", "c", "e", " ", "p", "e", "r", " ", "s", "h", "a", "r", "e", " ", "(", "$", ")">>,
       <<"p", "r", "i", "c", "e", "u", "s", "d">>,
       <<"p", "r", "i", "c", "e">>,
       <<"s", "a", "l", "e", " ", "p", "r", "i", "c", "e">>,
       <<"s", "a", "l", "e", " ", "p", "r", "i", "c", "e", " ", "(", "$", ")">> >>

\* the value None of _find_col: no column
NoCol == << >>

\* lc[key] of the dict {c.lower(): c for c in cols}: a later column replaces
\* an earlier one with the same lower-cased name
LcGet(cols, key) ==
    LET k == CHOOSE k \in 1..Len(cols) :
                 /\ Lower(cols[k]) = key
                 /\ \A j \in (k+1)..Len(cols) : Lower(cols[j]) # key
    IN  cols[k]

InLc(cols, key) == \E k \in 1..Len(cols) : Lower(cols[k]) = key

\* the loose "contains" match: the first column, in column order, whose
\* lower-cased name contains any candidate
LooseMatch(cols, candidates) ==
    LET hit(k) == \E c \in 1..Len(candidates) : Contains(candidates[c], Lower(cols[k]))
    IN  IF \E k \in 1..Len(cols) : hit(k)
        THEN cols[CHOOSE k \in 1..Len(cols) : hit(k) /\ \A j \in 1..(k-1) : ~hit(j)]
        ELSE NoCol

\* _find_col
\* a variant of _find_col that takes the first column, in column order,
\* whose lower-cased name is any of the candidates
find_col_first_column(cols, candidates) ==
    IF \E c \in 1..Len(candidates) : InLc(cols, candidates[c])
    THEN cols[CHOOSE k \in 1..Len(cols) :
                  /\ \E c \in 1..Len(candidates) : Lower(cols[k]) = candidates[c]
                  /\ \A j \in 1..(k-1) :
                        \A c \in 1..Len(candidates) : Lower(cols[j]) # candidates[c]]
    ELSE LooseMatch(cols, candidates)

find_col(cols, candidates) ==
    IF \E c \in 1..Len(candidates) : InLc(cols, candidates[c])
    THEN LET c == CHOOSE c \in 1..Len(candidates) :
                    /\ InLc(cols, candidates[c])
                    /\ \A b \in 1..(c-1) : ~InLc(cols, candidates[b])
         IN  LcGet(cols, candidates[c])
    ELSE LooseMatch(cols, candidates)

\* A sales file as read by pd.read_csv: cols, the column names, and rows,
\* each a sequence of cells aligned with cols.  A cell is [k, v]: k = "date"
\* for a YYYY-MM-DD string of day v, "num" for the number v, "empty" for an
\* empty cell, "text" else.

NumCell(n) == [k |-> "num", v |-> n]

EmptyCell == [k |-> "empty", v |-> 0]

\* the float pd.read_csv gives for a cell of a numeric column: NaN for an
\* empty cell
CellFloat(cell) == IF cell.k = "empty" THEN NaN ELSE Num(cell.v)

\* s[col] of a row
CellOf(file, row, col) == row[IndexOf(file.cols, col)]

\* load_sales raises the "missing recognizable columns" ValueError
SalesUnrecognized(cols) ==
    \/ find_col(cols, CANDIDATE_DATE) = NoCol
    \/ find_col(cols, CANDIDATE_SHARES) = NoCol
    \/ find_col(cols, CANDIDATE_PRICE) = NoCol

\* .astype(float) raises on a cell that is no number; an empty cell is NaN
\* already
FloatFails(file, shares_col, price_col) ==
    \E r \in 1..Len(file.rows) :
        \/ CellOf(file, file.rows[r], shares_col).k \notin {"num", "empty"}
        \/ CellOf(file, file.rows[r], price_col).k \notin {"num", "empty"}

\* the DataFrame load_sales builds from the resolved columns (Date is still
\* the unparsed cell)
SalesFrame(file, date_col, shares_col, price_col) ==
    [r \in 1..Len(file.rows) |->
        [Date  |-> CellOf(file, file.rows[r], date_col),
         Sold  |-> CellFloat(CellOf(file, file.rows[r], shares_col)),
         Price |-> CellFloat(CellOf(file, file.rows[r], price_col))]]

\* parse_date_ymd raises on a cell that is no date
DateFails(rows) == \E r \in 1..Len(rows) : rows[r].Date.k # "date"

----------------------------------------------------------------------------
(* The Section 104 pool: one iteration of get_gains_and_holdings *)

\* a Buy that pools the granted count instead of the issued count
BuyStepGranted(units, gbp, row) ==
    LET price_gbp == OrZero(row.PriceGBP)
        granted_units == OrZero(row.Granted)
    IN  [units    |-> Add(units, granted_units),
         gbp      |-> Add(gbp, Mul(granted_units, price_gbp)),
         gain     |-> Zero,
         appended |-> TRUE,
         raised   |-> "none"]

\* the Buy branch: the pool after the event, and the gain recorded
BuyStep(units, gbp, row) ==
    LET price_gbp == OrZero(row.PriceGBP)
        issued_units == OrZero(row.Issued)
    IN  [units    |-> Add(units, issued_units),
         gbp      |-> Add(gbp, Mul(issued_units, price_gbp)),
         gain     |-> Zero,
         appended |-> TRUE,
         raised   |-> "none"]

\* a Sell that reduces the holding before taking the proportional cost
SellStepStale(units, gbp, row) ==
    LET price_gbp == OrZero(row.PriceGBP)
        sold_units == OrZero(row.Sold)
        new_units == Sub(units, sold_units)
        allowable_cost == Div(Mul(gbp, sold_units), new_units)
        disposal_proceeds == Mul(sold_units, price_gbp)
    IN  IF IsZero(units) \/ IsZero(new_units)
        THEN [units |-> units, gbp |-> gbp, gain |-> Zero,
              appended |-> FALSE, raised |-> "ZeroDivisionError"]
        ELSE [units    |-> new_units,
              gbp      |-> Sub(gbp, allowable_cost),
              gain     |-> Sub(disposal_proceeds, allowable_cost),
              appended |-> TRUE,
              raised   |-> IF Less(new_units, Zero) THEN "ValueError" ELSE "none"]

\* a Sell without the check for a negative holding
SellStepNoCheck(units, gbp, row) ==
    LET price_gbp == OrZero(row.PriceGBP)
        sold_units == OrZero(row.Sold)
        allowable_cost == Div(Mul(gbp, sold_units), units)
        disposal_proceeds == Mul(sold_units, price_gbp)
    IN  IF IsZero(units)
        THEN [units |-> units, gbp |-> gbp, gain |-> Zero,
              appended |-> FALSE, raised |-> "ZeroDivisionError"]
        ELSE [units    |-> Sub(units, sold_units),
              gbp      |-> Sub(gbp, allowable_cost),
              gain     |-> Sub(disposal_proceeds, allowable_cost),
              appended |-> TRUE,
              raised   |-> "none"]

\* the Sell branch.  holdings_gbp * sold_units / holdings_units is a Python
\* float division: it raises ZeroDivisionError when holdings_units is 0.0,
\* before anything is assigned.  Otherwise the pool is adjusted and the new
\* pool cost appended, and only then is the negative holding detected.
SellStep(units, gbp, row) ==
    LET price_gbp == OrZero(row.PriceGBP)
        sold_units == OrZero(row.Sold)
        allowable_cost == Div(Mul(gbp, sold_units), units)
        disposal_proceeds == Mul(sold_units, price_gbp)
        new_units == Sub(units, sold_units)
    IN  IF IsZero(units)
        THEN [units |-> units, gbp |-> gbp, gain |-> Zero,
              appended |-> FALSE, raised |-> "ZeroDivisionError"]
        ELSE [units    |-> new_units,
              gbp      |-> Sub(gbp, allowable_cost),
              gain     |-> Sub(disposal_proceeds, allowable_cost),
              appended |-> TRUE,
              raised   |-> IF Less(new_units, Zero) THEN "ValueError" ELSE "none"]

FoldEvent(units, gbp, row) ==
    IF row.Type = "Buy" THEN BuyStep(units, gbp, row) ELSE SellStep(units, gbp, row)

----------------------------------------------------------------------------
(* Combine & sort *)

Perms(n) == {p \in [1..n -> 1..n] : \A a, b \in 1..n : a # b => p[a] # p[b]}

IsSortedByDate(seq) ==
    \A a, b \in 1..Len(seq) : a < b => seq[a].Date_dt <= seq[b].Date_dt

\* a merge that leaves the concatenation as it is
sort_values_unsorted(rows) == {rows}

\* sort_values(DATE_DT).reset_index(drop=True): the default sort kind is
\* "quicksort", which is not stable, so rows of equal date may come out in
\* any order: every date-ordered rearrangement of the rows is possible
sort_values(rows) ==
    {q \in {[k \in 1..Len(rows) |-> rows[p[k]]] : p \in Perms(Len(rows))} :
        IsSortedByDate(q)}

\* events[PRICE_PER_SHARE_GBP] = events[USD price] / events[GBP/USD]
\* (element-wise; a missing rate gives a missing price)
WithPriceGBP(rows) ==
    [k \in 1..Len(rows) |->
        [Type |-> rows[k].Type, Date_dt |-> rows[k].Date_dt,
         Granted |-> rows[k].Granted, Sold |-> rows[k].Sold,
         Issued |-> rows[k].Issued, Price |-> rows[k].Price,
         Rate |-> rows[k].Rate,
         PriceGBP |-> Div(rows[k].Price, rows[k].Rate)]]

----------------------------------------------------------------------------
(* Output formatting of print_events *)

DigitChars == <<"0", "1", "2", "3", "4", "5", "6", "7", "8", "9">>

\* the decimal digits of a natural number, highest first ("" for 0)
RECURSIVE BDigits(_)
BDigits(a) ==
    IF a = << >> THEN << >>
    ELSE LET res == BDivSmallFrom(a, 10, Len(a), 0)
         IN  Append(BDigits(BTrim(res.q)), DigitChars[res.r + 1])

RECURSIVE ZeroPad(_, _)
ZeroPad(digits, n) == IF Len(digits) >= n THEN digits ELSE ZeroPad(<<"0">> \o digits, n)

\* 10^n as a natural number
RECURSIVE BPow10(_)
BPow10(n) == IF n = 0 THEN <<1>> ELSE BMulSmall(BPow10(n - 1), 10)

\* the text of '%.<prec>f' % x for a float x that is no NaN: the exact value
\* of x rounded to prec decimals, ties to even; a zero keeps its sign
FormatF(x, prec) ==
    IF IsInf(x) THEN IF x.sign = 1 THEN <<"-", "i", "n", "f">> ELSE <<"i", "n", "f">>
    ELSE LET t == BMul(x.man, BPow10(prec))
             sh == -x.exp
             kept == BShr(t, sh)
             c == BCmp(BLow(t, sh), BShl(<<1>>, sh - 1))
             up == c > 0 \/ (c = 0 /\ BIsOdd(kept))
             n == IF x.exp >= 0 THEN BShl(t, x.exp)
                  ELSE IF up THEN BAdd(kept, <<1>>) ELSE kept
             digits == ZeroPad(BDigits(n), prec + 1)
             whole == SubSeq(digits, 1, Len(digits) - prec)
             frac == SubSeq(digits, Len(digits) - prec + 1, Len(digits))
         IN  (IF x.sign = 1 THEN <<"-">> ELSE << >>)
             \o whole \o (IF prec > 0 THEN <<".">> \o frac ELSE << >>)

\* f"{x:.4f}" if pd.notnull(x) else "": the text, as its list of characters
Fmt4(x) == IF IsNaN(x) THEN << >> ELSE FormatF(x, 4)

\* float_format="%.0f" (a missing value is written empty)
Fmt0(x) == IF IsNaN(x) THEN << >> ELSE FormatF(x, 0)

\* one row of the CSV written to stdout, in output_cols order
OutRow(row, holding, gain) ==
    [Type |-> row.Type, Date |-> row.Date_dt,
     Granted |-> Fmt0(row.Granted), Sold |-> Fmt0(row.Sold),
     Issued |-> Fmt0(row.Issued),
     Price |-> Fmt4(row.Price), Rate |-> Fmt4(row.Rate),
     Holdings |-> Fmt4(holding), Gains |-> Fmt4(gain)]

print_events(rows, gains, holdings) ==
    [k \in 1..Len(rows) |-> OutRow(rows[k], holdings[k], gains[k])]

----------------------------------------------------------------------------
(* Inputs: the files and arguments a run is given *)

SeqUpTo(S, n) == UNION {[1..k -> S] : k \in 0..n}

\* the days on which releases and sales fall
Dates == 1..MaxDate

\* vesting lots: counts granted, withheld and issued, and the USD price.
\* Nothing checks the cells of a releases CSV: the issued count of a lot may
\* be negative, or its cell empty.
ReleaseLots ==
    { [Granted |-> NumCell(120), Withheld |-> NumCell(20),
       Issued |-> NumCell(100), Price |-> NumCell(20)],
      [Granted |-> NumCell(60), Withheld |-> NumCell(10),
       Issued |-> NumCell(50), Price |-> NumCell(24)],
      [Granted |-> NumCell(10), Withheld |-> NumCell(15),
       Issued |-> NumCell(-5), Price |-> NumCell(20)],
      [Granted |-> NumCell(120), Withheld |-> NumCell(20),
       Issued |-> EmptyCell, Price |-> NumCell(20)] }

\* a line of a releases CSV: date, granted, withheld/sold, issued, price
ReleaseLines ==
    {<<d, l.Granted, l.Withheld, l.Issued, l.Price>> : d \in Dates, l \in ReleaseLots}

\* headers of releases CSVs: the one parse-stock-releases.py writes, the two
\* the loader names ('Date' or 'Release Date', with a Sold column), and one
\* with no date column
RelHeaders ==
    { ParserFieldnames,
      <<"Date", "Granted", "Sold", "Issued", "Price per share ($)">>,
      <<"Release Date", "Granted", "Sold", "Issued", "Price per share ($)">>,
      <<"Vest Day", "Granted", "Sold", "Issued", "Price per share ($)">> }

\* a sale: date, count sold (its cell may be empty), USD price
SaleLines ==
    {<<d, n, NumCell(30)>> : d \in Dates, n \in {NumCell(50), NumCell(60), EmptyCell}}

\* headers of sales CSVs, each column with the kind of cell it holds
SalesHeaders ==
    { << [name |-> <<"D", "a", "t", "e">>, kind |-> "date"],
         [name |-> <<"S", "h", "a", "r", "e", "s">>, kind |-> "qty"],
         [name |-> <<"P", "r", "i", "c", "e">>, kind |-> "price"] >>,
      << [name |-> <<"S", "a", "l", "e", " ", "P", "r", "i", "c", "e", " ", "(", "$", ")">>, kind |-> "price"],
         [name |-> <<"Q", "t", "y">>, kind |-> "qty"],
         [name |-> <<"S", "a", "l", "e", " ", "D", "a", "t", "e">>, kind |-> "date"] >>,
      << [name |-> <<"T", "r", "a", "d", "e", " ", "D", "a", "t", "e">>, kind |-> "date"],
         [name |-> <<"Q", "u", "a", "n", "t", "i", "t", "y", " ", "S", "o", "l", "d">>, kind |-> "qty"],
         [name |-> <<"U", "n", "i", "t", " ", "P", "r", "i", "c", "e">>, kind |-> "price"] >>,
      << [name |-> <<"W", "h", "e", "n">>, kind |-> "date"],
         [name |-> <<"C", "o", "u", "n", "t">>, kind |-> "qty"],
         [name |-> <<"A", "m", "o", "u", "n", "t">>, kind |-> "price"] >>,
      << [name |-> <<"D", "a", "t", "e">>, kind |-> "date"],
         [name |-> <<"S", "h", "a", "r", "e", "s">>, kind |-> "qty"],
         [name |-> <<"A", "m", "o", "u", "n", "t">>, kind |-> "price"] >> }

\* the column names of a sales header
HeaderCols(hdr) == [c \in 1..Len(hdr) |-> hdr[c].name]

\* the cell a sale has in a column of the given kind
SaleCell(line, kind) ==
    IF kind = "date" THEN [k |-> "date", v |-> line[1]]
    ELSE IF kind = "qty" THEN line[2]
    ELSE IF kind = "price" THEN line[3]
    ELSE [k |-> "text", v |-> 0]

\* the sales file with that header and those sales
SalesFile(hdr, lines) ==
    [cols |-> HeaderCols(hdr),
     rows |-> [r \in 1..Len(lines) |->
                  [c \in 1..Len(hdr) |-> SaleCell(lines[r], hdr[c].kind)]]]

\* the three _find_col calls of load_sales, for each of the headers above
ResolvedCols ==
    [hdr \in SalesHeaders |->
        [date_col   |-> find_col(HeaderCols(hdr), CANDIDATE_DATE),
         shares_col |-> find_col(HeaderCols(hdr), CANDIDATE_SHARES),
         price_col  |-> find_col(HeaderCols(hdr), CANDIDATE_PRICE)]]

\* rows of exchange-rate files: the rate 2 over every date, the rate 4 on
\* the last date only
XrRows ==
    { [Start_dt |-> 1, End_dt |-> MaxDate, rate |-> Num(2)],
      [Start_dt |-> MaxDate, End_dt |-> MaxDate, rate |-> Num(4)] }

----------------------------------------------------------------------------
(* main() *)

NoErr == [type |-> "", msg |-> "", col |-> "", cols |-> << >>]

Raise(type, msg, col, cols) ==
    /\ pc' = "error"
    /\ err' = [type |-> type, msg |-> msg, col |-> col, cols |-> cols]

\* load_sales is not running: it has no locals
NoFound == [date_col |-> NoCol, shares_col |-> NoCol, price_col |-> NoCol]

ResolveIdle ==
    /\ df_columns = << >>
    /\ found_cols = NoFound

\* combine.py is a separate program: not running
CombineIdle ==
    /\ cpc = "idle"
    /\ argv = << >>
    /\ path_ix = 0
    /\ fpos = 0
    /\ reads = 0
    /\ wrote_header = FALSE
    /\ stdout_rows = << >>
    /\ not_found = << >>
    /\ err_code = 0

Init ==
    /\ pc = "releases"
    /\ salesArg \in {"None", "Empty", "Path"}
    /\ rel = << >>
    /\ relCols = << >>
    /\ xr = << >>
    /\ s = << >>
    /\ events = << >>
    /\ i = 0
    /\ gains_series = << >>
    /\ holdings_gbp_series = << >>
    /\ holdings_units = Zero
    /\ holdings_gbp = Zero
    /\ output = << >>
    /\ stderr = << >>
    /\ err = NoErr
    /\ log = << >>
    /\ ResolveIdle
    /\ CombineIdle

\* the column holding the release date: 'Date', else 'Release Date'
RelDateCol(cols) ==
    IF DATE_LABEL \in Range(cols) THEN DATE_LABEL
    ELSE IF RELEASE_DATE_LABEL \in Range(cols) THEN RELEASE_DATE_LABEL
    ELSE ""

\* the first required column the releases lack ("" when none is lacking)
MissingRequired(cols) ==
    IF \E k \in 1..Len(required_rel) : required_rel[k] \notin Range(cols)
    THEN required_rel[CHOOSE k \in 1..Len(required_rel) :
                         /\ required_rel[k] \notin Range(cols)
                         /\ \A j \in 1..(k-1) : required_rel[j] \in Range(cols)]
    ELSE ""

\* rel.columns after the date column was normalised: a file with 'Release
\* Date' gets the new column 'Date', a file with 'Date' keeps its columns
WithDateCol(cols) ==
    IF DATE_LABEL \in Range(cols) THEN cols ELSE Append(cols, DATE_LABEL)

\* the releases DataFrame of a file whose columns passed the checks, with
\* its parsed dates
ReleaseRows(cols, lines) ==
    [r \in 1..Len(lines) |->
        [Date_dt |-> lines[r][IndexOf(cols, RelDateCol(cols))],
         Granted |-> CellFloat(lines[r][IndexOf(cols, GRANTED_LABEL)]),
         Sold    |-> CellFloat(lines[r][IndexOf(cols, SOLD_LABEL)]),
         Issued  |-> CellFloat(lines[r][IndexOf(cols, ISSUED_LABEL)]),
         Price   |-> CellFloat(lines[r][IndexOf(cols, PRICE_PER_SHARE_USD_LABEL)])]]

\* the releases with the GBP/USD column and the Type column "Buy"
ReleasesWithRate(rows, rates) ==
    [r \in 1..Len(rows) |->
        [Type    |-> "Buy",
         Date_dt |-> rows[r].Date_dt,
         Granted |-> rows[r].Granted,
         Sold    |-> rows[r].Sold,
         Issued  |-> rows[r].Issued,
         Price   |-> rows[r].Price,
         Rate    |-> rates[r]]]

\* --- Load releases ---
LoadReleases ==
    /\ pc = "releases"
    /\ \E cols \in RelHeaders, lines \in SeqUpTo(ReleaseLines, MaxEvents) :
        /\ IF RelDateCol(cols) = ""
           THEN /\ Raise("ValueError",
                         "Releases CSV must include 'Date' or 'Release Date' column.",
                         "", << >>)
                /\ relCols' = cols
                /\ UNCHANGED <<rel, log>>
           ELSE IF MissingRequired(cols) # ""
           THEN /\ Raise("ValueError", "Releases CSV missing required column",
                         MissingRequired(cols), << >>)
                /\ relCols' = WithDateCol(cols)
                /\ UNCHANGED <<rel, log>>
           ELSE /\ rel' = ReleaseRows(cols, lines)
                /\ relCols' = Append(WithDateCol(cols), DATE_DT)
                /\ pc' = "exrates"
                /\ log' = Append(log, "load_releases")
                /\ UNCHANGED err
    /\ UNCHANGED <<resolveVars, combineVars,
                   salesArg, xr, s, events, i, gains_series, holdings_gbp_series,
                   holdings_units, holdings_gbp, output, stderr>>

\* --- Load exchange rates and build date ranges ---
LoadExrates ==
    /\ pc = "exrates"
    /\ \E rows \in SeqUpTo(XrRows, MaxRanges) : xr' = rows
    /\ pc' = "attach_rel"
    /\ log' = Append(log, "load_exrates")
    /\ UNCHANGED <<resolveVars, combineVars,
                   salesArg, rel, relCols, s, events, i, gains_series,
                   holdings_gbp_series, holdings_units, holdings_gbp, output,
                   stderr, err>>

\* a main() that puts off the lookup for the releases
AttachReleasesDeferred ==
    /\ pc = "attach_rel"
    /\ rel' = ReleasesWithRate(rel, [k \in 1..Len(rel) |-> NaN])
    /\ relCols' = relCols \o <<GBP_USD_LABEL, TYPE_LABEL>>
    /\ pc' = "sales"
    /\ UNCHANGED <<resolveVars, combineVars,
                   salesArg, xr, s, events, i, gains_series,
                   holdings_gbp_series, holdings_units, holdings_gbp, output,
                   stderr, err, log>>

\* Attach rate to releases, and the Type column for releases
AttachReleases ==
    /\ pc = "attach_rel"
    /\ rel' = ReleasesWithRate(rel, attach_rate(DateColumn(rel), xr))
    /\ relCols' = relCols \o <<GBP_USD_LABEL, TYPE_LABEL>>
    /\ pc' = "sales"
    /\ log' = Append(log, "attach_rate_releases")
    /\ UNCHANGED <<resolveVars, combineVars,
                   salesArg, xr, s, events, i, gains_series,
                   holdings_gbp_series, holdings_units, holdings_gbp, output,
                   stderr, err>>

\* --- Sales (optional) ---: s = load_sales(args.sales)
load_sales ==
    /\ pc = "sales"
    /\ salesArg = "Path"
    /\ \E hdr \in SalesHeaders :
        LET cols == HeaderCols(hdr)
            date_col == ResolvedCols[hdr].date_col
            shares_col == ResolvedCols[hdr].shares_col
            price_col == ResolvedCols[hdr].price_col
        IN  \E lines \in SeqUpTo(SaleLines, MaxEvents - Len(rel)) :
            LET file == SalesFile(hdr, lines)
            IN  IF date_col = NoCol \/ shares_col = NoCol \/ price_col = NoCol
                THEN /\ Raise("ValueError", "sales.csv missing recognizable columns",
                              "", cols)
                     /\ UNCHANGED <<s, log>>
                ELSE IF FloatFails(file, shares_col, price_col)
                THEN /\ Raise("ValueError", "could not convert string to float",
                              "", << >>)
                     /\ UNCHANGED <<s, log>>
                ELSE /\ s' = SalesFrame(file, date_col, shares_col, price_col)
                     /\ pc' = "attach_sales"
                     /\ log' = Append(log, "load_sales")
                     /\ UNCHANGED err
    /\ UNCHANGED <<resolveVars, combineVars,
                   salesArg, rel, relCols, xr, events, i, gains_series,
                   holdings_gbp_series, holdings_units, holdings_gbp, output, stderr>>

\* `if sales:` is false for no --sales and for the empty string
SkipSales ==
    /\ pc = "sales"
    /\ salesArg # "Path"
    /\ pc' = "combine"
    /\ UNCHANGED <<resolveVars, combineVars,
                   salesArg, rel, relCols, xr, s, events, i, gains_series,
                   holdings_gbp_series, holdings_units, holdings_gbp, output,
                   stderr, err, log>>

\* s[DATE_DT]: the parsed dates of the sales
SalesDates(rows) == [r \in 1..Len(rows) |-> rows[r].Date.v]

\* the sales rows with parsed dates, the rates, zero Granted/Issued and
\* Type "Sell"
SalesRows(rows, rates) ==
    [r \in 1..Len(rows) |->
        [Type    |-> "Sell",
         Date_dt |-> rows[r].Date.v,
         Granted |-> Zero,
         Sold    |-> rows[r].Sold,
         Issued  |-> Zero,
         Price   |-> rows[r].Price,
         Rate    |-> rates[r]]]

\* the rest of the sales block: parse the dates, attach the rate
AttachSales ==
    /\ pc = "attach_sales"
    /\ IF DateFails(s)
       THEN /\ Raise("ValueError", "time data does not match format", "", << >>)
            /\ UNCHANGED <<s, log>>
       ELSE /\ s' = SalesRows(s, attach_rate(SalesDates(s), xr))
            /\ pc' = "combine"
            /\ log' = Append(log, "attach_rate_sales")
            /\ UNCHANGED err
    /\ UNCHANGED <<resolveVars, combineVars,
                   salesArg, rel, relCols, xr, events, i, gains_series,
                   holdings_gbp_series, holdings_units, holdings_gbp, output, stderr>>

AlignedCols ==
    <<TYPE_LABEL, DATE_LABEL, DATE_DT, GRANTED_LABEL, SOLD_LABEL, ISSUED_LABEL,
      PRICE_PER_SHARE_USD_LABEL, GBP_USD_LABEL>>

\* pd.concat([rel, s]) (rel alone when --sales was not given)
Concat(r, sl, arg) == IF arg = "None" THEN r ELSE r \o sl

\* --- Combine & sort ---, the GBP price column, and the entry into
\* get_gains_and_holdings (its locals initialised).  With --sales "" the
\* name s was never bound.
Combine ==
    /\ pc = "combine"
    /\ relCols' = AlignedCols
    /\ IF salesArg = "Empty"
       THEN /\ Raise("UnboundLocalError", "s referenced before assignment", "", << >>)
            /\ UNCHANGED <<events, log>>
       ELSE /\ \E sorted \in sort_values(Concat(rel, s, salesArg)) :
                   events' = WithPriceGBP(sorted)
            /\ pc' = "fold"
            /\ log' = Append(log, "get_gains_and_holdings")
            /\ UNCHANGED err
    /\ i' = 0
    /\ gains_series' = << >>
    /\ holdings_gbp_series' = << >>
    /\ holdings_units' = Zero
    /\ holdings_gbp' = Zero
    /\ UNCHANGED <<resolveVars, combineVars,
                   salesArg, rel, xr, s, output, stderr>>

\* one iteration of the loop of get_gains_and_holdings, on events row i
\* (rows are indexed from 0 after reset_index)
FoldStep ==
    /\ pc = "fold"
    /\ i < Len(events)
    /\ \E r \in {FoldEvent(holdings_units, holdings_gbp, events[i + 1])} :
           /\ holdings_units' = r.units
           /\ holdings_gbp' = r.gbp
           /\ holdings_gbp_series' =
                 IF r.appended THEN Append(holdings_gbp_series, r.gbp)
                 ELSE holdings_gbp_series
           /\ IF r.raised = "none"
              THEN /\ gains_series' = Append(gains_series, r.gain)
                   /\ i' = i + 1
                   /\ UNCHANGED <<pc, err, stderr>>
              ELSE IF r.raised = "ValueError"
              THEN /\ Raise("ValueError", "Selling more shares than currently held",
                            "", << >>)
                   /\ stderr' = Append(stderr, i)
                   /\ UNCHANGED <<gains_series, i>>
              ELSE /\ Raise("ZeroDivisionError", "float division by zero", "", << >>)
                   /\ UNCHANGED <<gains_series, i, stderr>>
    /\ UNCHANGED <<resolveVars, combineVars,
                   salesArg, rel, relCols, xr, s, events, output, log>>

\* a report that writes the rows of the events folded so far
PrintEventsEarly ==
    /\ pc = "fold"
    /\ output' = print_events(SubSeq(events, 1, i), gains_series, holdings_gbp_series)
    /\ pc' = IF i = Len(events) THEN "done" ELSE pc
    /\ log' = IF i = Len(events) THEN Append(log, "print_events") ELSE log
    /\ UNCHANGED <<resolveVars, combineVars,
                   salesArg, rel, relCols, xr, s, events, i, gains_series,
                   holdings_gbp_series, holdings_units, holdings_gbp, stderr, err>>

\* the loop is over: return, store the two columns, print_events(events)
PrintEvents ==
    /\ pc = "fold"
    /\ i = Len(events)
    /\ output' = print_events(events, gains_series, holdings_gbp_series)
    /\ pc' = "done"
    /\ log' = Append(log, "print_events")
    /\ UNCHANGED <<resolveVars, combineVars,
                   salesArg, rel, relCols, xr, s, events, i, gains_series,
                   holdings_gbp_series, holdings_units, holdings_gbp, stderr, err>>

Next ==
    \/ LoadReleases
    \/ LoadExrates
    \/ AttachReleases
    \/ load_sales
    \/ SkipSales
    \/ AttachSales
    \/ Combine
    \/ FoldStep
    \/ PrintEvents

Spec == Init /\ [][Next]_vars

----------------------------------------------------------------------------
(* The exchange-rate lookup on its own: attach_rate over one date column   *)
(* and any list of ranges, overlapping or not, in any order                *)

MaxLookupRanges == 3

LookupRanges ==
    {[Start_dt |-> a, End_dt |-> b, rate |-> Num(r)] :
        a \in Dates, b \in Dates, r \in {2, 4}}

InitRate ==
    /\ pc = "attach_rel"
    /\ salesArg = "None"
    /\ \E d \in Dates :
         rel = ReleaseRows(<<"Date", "Granted", "Sold", "Issued", "Price per share ($)">>,
                           << <<d, NumCell(120), NumCell(20), NumCell(100),
                                 NumCell(20)>> >>)
    /\ relCols = <<"Date", "Granted", "Sold", "Issued", "Price per share ($)",
                   DATE_DT>>
    /\ xr \in SeqUpTo(LookupRanges, MaxLookupRanges)
    /\ s = << >>
    /\ events = << >>
    /\ i = 0
    /\ gains_series = << >>
    /\ holdings_gbp_series = << >>
    /\ holdings_units = Zero
    /\ holdings_gbp = Zero
    /\ output = << >>
    /\ stderr = << >>
    /\ err = NoErr
    /\ log = <<"load_releases", "load_exrates">>
    /\ ResolveIdle
    /\ CombineIdle

SpecRate == InitRate /\ [][AttachReleases]_vars

----------------------------------------------------------------------------
(* Column resolution on its own: the three _find_col calls of load_sales   *)
(* and its schema check, over any header of distinct column names          *)

MaxCols == 3

\* column names a sales file may carry: exact aliases in several cases and
\* priorities, names that only contain an alias, and a name that matches none
ColumnNames ==
    { <<"D", "a", "t", "e">>,
      <<"D", "A", "T", "E">>,
      <<"S", "a", "l", "e", " ", "D", "a", "t", "e">>,
      <<"T", "r", "a", "d", "e", " ", "D", "a", "t", "e">>,
      <<"S", "h", "a", "r", "e", "s">>,
      <<"Q", "t", "y">>,
      <<"Q", "u", "a", "n", "t", "i", "t", "y", " ", "S", "o", "l", "d">>,
      <<"P", "r", "i", "c", "e">>,
      <<"U", "n", "i", "t", " ", "P", "r", "i", "c", "e">>,
      <<"A", "m", "o", "u", "n", "t">> }

\* df.columns of a file read by pd.read_csv: the names are distinct
ColumnLists ==
    {h \in SeqUpTo(ColumnNames, MaxCols) :
        \A j, k \in 1..Len(h) : j # k => h[j] # h[k]}

InitCols ==
    /\ pc = "sales"
    /\ salesArg = "Path"
    /\ rel = << >>
    /\ relCols = << >>
    /\ xr = << >>
    /\ s = << >>
    /\ events = << >>
    /\ i = 0
    /\ gains_series = << >>
    /\ holdings_gbp_series = << >>
    /\ holdings_units = Zero
    /\ holdings_gbp = Zero
    /\ output = << >>
    /\ stderr = << >>
    /\ err = NoErr
    /\ log = << >>
    /\ df_columns \in ColumnLists
    /\ found_cols = NoFound
    /\ CombineIdle

\* load_sales up to its schema check: the three lookups, then the raise
FindCols ==
    /\ pc = "sales"
    /\ salesArg = "Path"
    /\ LET date_col == find_col(df_columns, CANDIDATE_DATE)
           shares_col == find_col(df_columns, CANDIDATE_SHARES)
           price_col == find_col(df_columns, CANDIDATE_PRICE)
       IN  /\ found_cols' = [date_col |-> date_col, shares_col |-> shares_col,
                             price_col |-> price_col]
           /\ IF date_col = NoCol \/ shares_col = NoCol \/ price_col = NoCol
              THEN Raise("ValueError", "sales.csv missing recognizable columns",
                         "", df_columns)
              ELSE /\ pc' = "sales_columns_found"
                   /\ UNCHANGED err
    /\ UNCHANGED <<combineVars, df_columns, salesArg, rel, relCols, xr, s, events, i,
                   gains_series, holdings_gbp_series, holdings_units,
                   holdings_gbp, output, stderr, log>>

SpecCols == InitCols /\ [][FindCols]_vars

----------------------------------------------------------------------------
(* bin/combine.py: one output row per monthly exchange-rate file, the row  *)
(* of the first line that contains "USA,Dollar,USD".  A file is the list   *)
(* of its lines, each line the list of its bytes with its line terminator. *)
(* A byte is its value 0..255 and a character is its code point.           *)

MaxFiles == 2

MaxLines == 2

\* readline() calls followed on one file
MaxReads == 4

\* the ASCII characters from the space (code 32) to "_" (code 95)
Ascii ==
    <<" ", "!", "\"", "#", "$", "%", "&", "'", "(", ")", "*", "+",
      ",", "-", ".", "/", "0", "1", "2", "3", "4", "5", "6", "7",
      "8", "9", ":", ";", "<", "=", ">", "?", "@", "A", "B", "C",
      "D", "E", "F", "G", "H", "I", "J", "K", "L", "M", "N", "O",
      "P", "Q", "R", "S", "T", "U", "V", "W", "X", "Y", "Z", "[",
      "\\", "]", "^", "_">>

\* ord(c) of one of these characters or of a lower-case letter (97..122)
ord(c) ==
    IF c \in Range(LowerChars) THEN 96 + IndexOf(LowerChars, c)
    ELSE 31 + IndexOf(Ascii, c)

\* the code points of a text
Text(chars) == [k \in 1..Len(chars) |-> ord(chars[k])]

\* bytes.decode("ISO-8859-1"): byte b is the character of code point b
decode(bytes) == [k \in 1..Len(bytes) |-> bytes[k]]

fieldnames ==
    <<"Country/Territories", "Currency", "Currency code",
      "Currency units per Â£1", "Start Date", "End Date">>

USD_KEY == Text(<<"U", "S", "A", ",", "D", "o", "l", "l", "a", "r", ",", "U", "S", "D">>)

\* the characters str.strip() removes, those with str.isspace(): among the
\* code points 0..255 these are \t \n \v \f \r, the separators 28..31, the
\* space, NEL (133) and the no-break space (160)
Whitespace == {9, 10, 11, 12, 13, 28, 29, 30, 31, 32, 133, 160}

COMMA == ord(",")

RECURSIVE lstrip(_)
lstrip(str) ==
    IF str # << >> /\ Head(str) \in Whitespace THEN lstrip(Tail(str)) ELSE str

RECURSIVE rstrip(_)
rstrip(str) ==
    IF str # << >> /\ str[Len(str)] \in Whitespace
    THEN rstrip(SubSeq(str, 1, Len(str) - 1))
    ELSE str

strip(str) == rstrip(lstrip(str))

\* str.split(","): never the empty list
RECURSIVE split(_)
split(str) ==
    IF \E k \in 1..Len(str) : str[k] = COMMA
    THEN LET k == CHOOSE k \in 1..Len(str) :
                     str[k] = COMMA /\ \A j \in 1..(k-1) : str[j] # COMMA
         IN  <<SubSeq(str, 1, k - 1)>> \o split(SubSeq(str, k + 1, Len(str)))
    ELSE <<str>>

\* f.readline() with pos lines consumed: the next line, b"" at end of file
readline(file, pos) == IF pos < Len(file) THEN file[pos + 1] ELSE << >>

\* the value None of get_usd_row
NoRow == << >>

\* dict(zip(fieldnames, row)) written by the DictWriter: the fields beyond
\* the fieldnames are dropped, the missing ones are written empty
writerow(row) ==
    [k \in 1..Len(fieldnames) |-> IF k <= Len(row) THEN row[k] ELSE << >>]

\* lines of the input files: a USD line, a USD line of four fields set
\* between a form feed and a no-break space with a CR LF terminator, a line
\* of another currency, and an empty line
FileLines ==
    { Text(<<"U", "S", "A", ",", "D", "o", "l", "l", "a", "r", ",", "U", "S", "D", ",", "1", ".", "2", ",", "d", "1", ",", "d", "2">>) \o <<10>>,
      <<12>> \o Text(<<"U", "S", "A", ",", "D", "o", "l", "l", "a", "r", ",", "U", "S", "D", ",", "1", ".", "3">>) \o <<160, 13, 10>>,
      Text(<<"E", "u", "r", "o", ",", "E", "u", "r", "o", ",", "E", "U", "R", ",", "1", ".", "1", ",", "d", "1", ",", "d", "2">>) \o <<10>>,
      <<10>> }

Files == SeqUpTo(FileLines, MaxLines)

InitCombine ==
    /\ pc = "idle"
    /\ salesArg = "None"
    /\ rel = << >>
    /\ relCols = << >>
    /\ xr = << >>
    /\ s = << >>
    /\ events = << >>
    /\ i = 0
    /\ gains_series = << >>
    /\ holdings_gbp_series = << >>
    /\ holdings_units = Zero
    /\ holdings_gbp = Zero
    /\ output = << >>
    /\ stderr = << >>
    /\ err = NoErr
    /\ log = << >>
    /\ ResolveIdle
    /\ cpc = "main"
    /\ argv \in SeqUpTo(Files, MaxFiles)
    /\ path_ix = 0
    /\ fpos = 0
    /\ reads = 0
    /\ wrote_header = FALSE
    /\ stdout_rows = << >>
    /\ not_found = << >>
    /\ err_code = 0

\* main up to the loop: the usage error, else the header and err_code = 0
CombineStart ==
    /\ cpc = "main"
    /\ IF Len(argv) < 1
       THEN /\ err_code' = 2
            /\ cpc' = "exit"
            /\ UNCHANGED wrote_header
       ELSE /\ wrote_header' = TRUE
            /\ err_code' = 0
            /\ cpc' = "for"
    /\ UNCHANGED <<mainVars, resolveVars, argv, path_ix, fpos, reads, stdout_rows,
                   not_found>>

\* the head of `for p in argv[1:]`: open the next file in get_usd_row, or
\* `return err_code` after the last one
NextPath ==
    /\ cpc = "for"
    /\ IF path_ix < Len(argv)
       THEN /\ path_ix' = path_ix + 1
            /\ fpos' = 0
            /\ reads' = 0
            /\ cpc' = "get_usd_row"
       ELSE /\ cpc' = "exit"
            /\ UNCHANGED <<path_ix, fpos, reads>>
    /\ UNCHANGED <<mainVars, resolveVars, argv, wrote_header, stdout_rows, not_found,
                   err_code>>

\* what main does with the value get_usd_row returned
HandleRow(row) ==
    /\ IF row = NoRow
       THEN /\ not_found' = Append(not_found, path_ix)
            /\ err_code' = 1
            /\ UNCHANGED stdout_rows
       ELSE /\ stdout_rows' = Append(stdout_rows, writerow(row))
            /\ UNCHANGED <<not_found, err_code>>
    /\ cpc' = "for"

\* one turn of `while True` in get_usd_row: read a line, and return its
\* fields to main when it contains the key.  Nothing else leaves the loop:
\* at the end of the file readline() returns b"" again and again, and the
\* `return None` after the `with` block is never reached.
ReadLine ==
    /\ cpc = "get_usd_row"
    /\ reads < MaxReads
    /\ LET file == argv[path_ix]
           line == strip(decode(readline(file, fpos)))
       IN  /\ fpos' = IF fpos < Len(file) THEN fpos + 1 ELSE fpos
           /\ reads' = reads + 1
           /\ IF Contains(USD_KEY, line)
              THEN HandleRow(split(line))
              ELSE UNCHANGED <<cpc, stdout_rows, not_found, err_code>>
    /\ UNCHANGED <<mainVars, resolveVars, argv, path_ix, wrote_header>>

NextCombine ==
    \/ CombineStart
    \/ NextPath
    \/ ReadLine

SpecCombine == InitCombine /\ [][NextCombine]_vars

----------------------------------------------------------------------------
(* Properties *)

Done(op) == op \in Range(log)

FoldEntered == Done("get_gains_and_holdings")

OversellMsg == "Selling more shares than currently held"

SalesSchemaMsg == "sales.csv missing recognizable columns"

\* units held after the first k events of ev: issued counts added, sold
\* counts taken away
RECURSIVE UnitsAfter(_, _)
UnitsAfter(ev, k) ==
    IF k = 0 THEN Zero
    ELSE IF ev[k].Type = "Buy" THEN Add(UnitsAfter(ev, k - 1), ev[k].Issued)
    ELSE Sub(UnitsAfter(ev, k - 1), ev[k].Sold)

\* sum of Issued * priceHome over the first k events
RECURSIVE CostOfBuys(_, _)
CostOfBuys(ev, k) ==
    IF k = 0 THEN Zero
    ELSE Add(CostOfBuys(ev, k - 1), Mul(ev[k].Issued, ev[k].PriceGBP))

\* pool cost recorded after event k (0 before the first)
CostAfter(k) == IF k = 0 THEN Zero ELSE holdings_gbp_series[k]

\* C1: a Sell of more units than are held (from any pool, the empty one
\* included) fails with the oversell ValueError naming the row index of
\* the event; it raises no other error and never completes normally.
C1_OversellAlwaysOversellError ==
    FoldEntered =>
        /\ \A k \in 1..i :
              events[k].Type = "Sell" =>
                  ~Less(UnitsAfter(events, k - 1), events[k].Sold)
        /\ (/\ pc = "error"
            /\ events[i + 1].Type = "Sell"
            /\ Less(UnitsAfter(events, i), events[i + 1].Sold))
           => (/\ err.type = "ValueError"
               /\ err.msg = OversellMsg
               /\ stderr = <<i>>)

\* an attached row whose date no range covers
MissingRate(rows) == \E k \in 1..Len(rows) : IsNaN(rows[k].Rate)

\* C2: when an event's date is covered by no range, the run fails with a
\* missing-rate error before any pool computation or output: no event is
\* priced with an empty rate and no report row is written.
C2_MissingRateAborts ==
    (\/ Done("attach_rate_releases") /\ MissingRate(rel)
     \/ Done("attach_rate_sales") /\ MissingRate(s))
    => /\ gains_series = << >>
       /\ holdings_gbp_series = << >>
       /\ output = << >>
       /\ pc # "done"

\* C3: output is all-or-nothing: rows are written only after the fold has
\* completed for every event; a run whose fold fails writes no row, not
\* even for the events folded before the failure.
C3_AllOrNothingOutput ==
    /\ output # << >> =>
          /\ pc = "done"
          /\ err = NoErr
          /\ i = Len(events)
          /\ Len(gains_series) = Len(events)
          /\ Len(output) = Len(events)
    /\ pc = "error" => output = << >>

C3_Witness ==
    /\ pc = "error"
    /\ err.msg = OversellMsg
    /\ Len(gains_series) >= 2
    /\ output = << >>

\* C4 as stated: the schema error of load_sales reaches the caller before
\* any exchange-rate lookup (on releases or on sales) and before any pool
\* computation.
C4_SchemaErrorBeforeAnyLookup ==
    (pc = "error" /\ err.msg = SalesSchemaMsg) =>
        /\ ~Done("attach_rate_releases")
        /\ ~Done("attach_rate_sales")
        /\ ~FoldEntered

\* C4 amended: the schema error of load_sales reaches the caller before
\* any exchange-rate lookup on the sales and before any pool computation
\* or output; the lookup on the releases has been performed by then.
C4_SchemaErrorBeforeSalesLookup ==
    (pc = "error" /\ err.msg = SalesSchemaMsg) =>
        /\ Done("attach_rate_releases")
        /\ ~Done("load_sales")
        /\ ~Done("attach_rate_sales")
        /\ ~FoldEntered
        /\ gains_series = << >>
        /\ holdings_gbp_series = << >>
        /\ output = << >>

C4_Witness ==
    /\ pc = "error"
    /\ err.msg = SalesSchemaMsg
    /\ err.cols # << >>
    /\ Len(rel) >= 1
    /\ \A k \in 1..Len(rel) : ~IsNaN(rel[k].Rate)

\* C5: releases with exactly the columns parse-stock-releases.py writes
\* (Date, Granted, Withheld, Issued, Price per share) are accepted by the
\* release loading: it requires no further column.
C5_ParserShapeAccepted ==
    relCols = ParserFieldnames =>
        ~(pc = "error" /\ err.msg = "Releases CSV missing required column")

\* x >= 0 as floats compare: false of NaN
NonNegative(x) == ~IsNaN(x) /\ ~Less(x, Zero)

\* a share count that is present, finite and not negative
ValidCount(x) == x.kind = "fin" /\ (x.sign = 0 \/ IsZero(x))

\* the first n events carry valid counts: Issued of a Buy, Sold of a Sell
ValidCounts(ev, n) ==
    \A k \in 1..n :
        IF ev[k].Type = "Buy" THEN ValidCount(ev[k].Issued)
        ELSE ValidCount(ev[k].Sold)

\* C6 as stated: on every event sequence on which the fold does not raise,
\* the units held are >= 0 after every event, starting from the empty pool.
C6_UnitsNonNegative ==
    (FoldEntered /\ pc # "error" /\ i = Len(events)) =>
        /\ NonNegative(holdings_units)
        /\ \A k \in 0..i : NonNegative(UnitsAfter(events, k))

\* C6 as amended: on every event sequence whose share counts (Issued of a
\* Buy, Sold of a Sell) are present, finite and not negative, as long as
\* the fold has not raised, the units held are >= 0 after every event,
\* starting from the empty pool.
C6_UnitsNonNegativeValidCounts ==
    (FoldEntered /\ pc # "error" /\ ValidCounts(events, i)) =>
        /\ NonNegative(holdings_units)
        /\ \A k \in 0..i : NonNegative(UnitsAfter(events, k))
        /\ holdings_units = UnitsAfter(events, i)

\* valid counts, and two Sells that empty the pool exactly
C6_Witness ==
    /\ pc = "fold"
    /\ i = 3
    /\ ValidCounts(events, 3)
    /\ events[1].Type = "Buy"
    /\ events[2].Type = "Sell"
    /\ events[3].Type = "Sell"
    /\ holdings_units = Zero

\* C7: every Sell folded (from a pool with units held > 0, and from any
\* other pool the fold accepts) takes
\* allowableCost = poolCost_before * sold / units_before, records the gain
\* sold * priceHome - allowableCost, and leaves units_before - sold units
\* and poolCost_before - allowableCost, the recorded pool cost being the
\* value after the subtraction.
C7_GainIdentity ==
    FoldEntered =>
        /\ \A k \in 1..i :
            events[k].Type = "Sell" =>
                LET sold == events[k].Sold
                    unitsBefore == UnitsAfter(events, k - 1)
                    allowable == Div(Mul(CostAfter(k - 1), sold), unitsBefore)
                IN  /\ gains_series[k] = Sub(Mul(sold, events[k].PriceGBP), allowable)
                    /\ holdings_gbp_series[k] = Sub(CostAfter(k - 1), allowable)
                    /\ (k = i /\ pc # "error") =>
                            /\ holdings_gbp = holdings_gbp_series[k]
                            /\ holdings_units = Sub(unitsBefore, sold)
        /\ (pc = "error" /\ err.msg = OversellMsg) =>
              LET sold == events[i + 1].Sold
                  unitsBefore == UnitsAfter(events, i)
                  allowable == Div(Mul(CostAfter(i), sold), unitsBefore)
              IN  /\ holdings_gbp_series[i + 1] = Sub(CostAfter(i), allowable)
                  /\ holdings_gbp = holdings_gbp_series[i + 1]
                  /\ holdings_units = Sub(unitsBefore, sold)

\* the example of the claim: pool (1600, 150), Sell 60 @ 15 gives gain 260
\* and pool (960, 90)
C7_Witness ==
    /\ pc = "fold"
    /\ i = 3
    /\ events[3].Type = "Sell"
    /\ events[3].Sold = Num(60)
    /\ events[3].PriceGBP = Num(15)
    /\ holdings_gbp_series[2] = Num(1600)
    /\ UnitsAfter(events, 2) = Num(150)
    /\ gains_series[3] = Num(260)
    /\ holdings_gbp = Num(960)
    /\ holdings_units = Num(90)

\* C8: each Buy adds Issued * priceHome to the pool cost and Issued (not
\* Granted) to the units held and records the gain 0; after Buy events
\* only, the pool cost is the sum of Issued_i * priceHome_i and the units
\* held are the sum of Issued_i.
C8_BuyConservation ==
    FoldEntered =>
        /\ \A k \in 1..i :
              events[k].Type = "Buy" =>
                  /\ gains_series[k] = Zero
                  /\ holdings_gbp_series[k] =
                        Add(CostAfter(k - 1), Mul(events[k].Issued, events[k].PriceGBP))
        /\ (pc # "error" /\ \A k \in 1..i : events[k].Type = "Buy") =>
              /\ holdings_gbp = CostOfBuys(events, i)
              /\ holdings_units = UnitsAfter(events, i)

C8_Witness ==
    /\ pc = "fold"
    /\ i = 2
    /\ events[1].Type = "Buy"
    /\ events[2].Type = "Buy"
    /\ events[1].Issued # events[2].Issued
    /\ events[1].Granted # events[1].Issued
    /\ holdings_units = Num(150)
    /\ holdings_gbp = Num(1600)

\* C9: for every date and every list of ranges, the rate attached is that
\* of the first range, in the order supplied, with start <= date <= end
\* (both bounds inclusive), whichever covering range is later or tighter;
\* no rate is attached when no range covers the date.
C9_FirstCoveringRange ==
    Done("attach_rate_releases") =>
        \A k \in 1..Len(rel) :
            LET d == rel[k].Date_dt
                covering == {j \in 1..Len(xr) :
                                xr[j].Start_dt <= d /\ d <= xr[j].End_dt}
            IN  IF covering = {}
                THEN IsNaN(rel[k].Rate)
                ELSE \E j \in covering :
                        /\ \A m \in covering : j <= m
                        /\ rel[k].Rate = xr[j].rate

\* two ranges cover the date, the first supplied ends on it, the later one
\* is tighter and has another rate
C9_Witness ==
    /\ Done("attach_rate_releases")
    /\ Len(xr) >= 2
    /\ Len(rel) = 1
    /\ xr[1].Start_dt < rel[1].Date_dt
    /\ xr[1].End_dt = rel[1].Date_dt
    /\ xr[2].Start_dt = rel[1].Date_dt
    /\ xr[2].End_dt = rel[1].Date_dt
    /\ xr[1].rate # xr[2].rate
    /\ rel[1].Rate = xr[1].rate

\* a timeline row without its derived GBP price: the row as it was merged
Merged(row) ==
    [Type |-> row.Type, Date_dt |-> row.Date_dt, Granted |-> row.Granted,
     Sold |-> row.Sold, Issued |-> row.Issued, Price |-> row.Price,
     Rate |-> row.Rate]

Count(seq, x) == Cardinality({k \in 1..Len(seq) : seq[k] = x})

\* C10: the events the fold consumes are a permutation of the releases
\* rows followed by the sales rows (each exactly once) in non-decreasing
\* date order, so an event is folded only after every strictly earlier one.
C10_TimelineSortedPermutation ==
    FoldEntered =>
        LET src == Concat(rel, s, salesArg)
            tl == [k \in 1..Len(events) |-> Merged(events[k])]
        IN  /\ Len(tl) = Len(src)
            /\ \A x \in Range(src) \cup Range(tl) : Count(tl, x) = Count(src, x)
            /\ \A a, b \in 1..Len(events) :
                  a < b => events[a].Date_dt <= events[b].Date_dt
            /\ \A a \in 1..i : \A b \in (i + 1)..Len(events) :
                  ~(events[b].Date_dt < events[a].Date_dt)

C10_Witness ==
    /\ pc = "done"
    /\ Len(rel) = 2
    /\ Len(s) = 1
    /\ rel[1].Date_dt > rel[2].Date_dt
    /\ s[1].Date_dt < rel[1].Date_dt
    /\ Len(events) = 3
    /\ i = 3

----------------------------------------------------------------------------
(* Column resolution *)

\* the positions, in priority order, of the aliases some column equals
\* case-insensitively
ExactAliases(candidates) ==
    {c \in 1..Len(candidates) :
        \E k \in 1..Len(df_columns) : Lower(df_columns[k]) = candidates[c]}

\* some column's lower-cased name contains some alias
SomeContains(candidates) ==
    \E k \in 1..Len(df_columns) : \E c \in 1..Len(candidates) :
        Contains(candidates[c], Lower(df_columns[k]))

\* the column `col` is what the claim allows for a field with those aliases
ResolvedAsClaimed(col, candidates) ==
    IF ExactAliases(candidates) # {}
    THEN /\ col \in Range(df_columns)
         /\ \E c \in ExactAliases(candidates) :
               /\ \A b \in ExactAliases(candidates) : c <= b
               /\ Lower(col) = candidates[c]
    ELSE IF SomeContains(candidates)
    THEN /\ col \in Range(df_columns)
         /\ \E c \in 1..Len(candidates) : Contains(candidates[c], Lower(col))
    ELSE col = NoCol

\* C11: once load_sales has resolved its columns, each of the date, share
\* count and price columns is, case-insensitively, the column equal to the
\* highest-priority alias that some column equals; only when no alias is
\* equalled is it a column whose lower-cased name contains an alias; and when
\* one of the three has no column the run ends in the schema error that lists
\* every column of the file, while otherwise no error is raised.
C11_ColumnResolution ==
    pc # "sales" =>
        /\ ResolvedAsClaimed(found_cols.date_col, CANDIDATE_DATE)
        /\ ResolvedAsClaimed(found_cols.shares_col, CANDIDATE_SHARES)
        /\ ResolvedAsClaimed(found_cols.price_col, CANDIDATE_PRICE)
        /\ IF \/ found_cols.date_col = NoCol
              \/ found_cols.shares_col = NoCol
              \/ found_cols.price_col = NoCol
           THEN /\ pc = "error"
                /\ err.type = "ValueError"
                /\ err.msg = SalesSchemaMsg
                /\ err.cols = df_columns
           ELSE /\ pc = "sales_columns_found"
                /\ err = NoErr

\* a file whose second column is the first alias of the date and whose first
\* column is a later alias: the date resolves to the second column; the price
\* has only a name that contains an alias; the share count has no column, so
\* the run ends in the schema error listing the three columns
C11_Witness ==
    /\ pc = "error"
    /\ Len(df_columns) = 3
    /\ Lower(df_columns[1]) = CANDIDATE_DATE[2]
    /\ Lower(df_columns[2]) = CANDIDATE_DATE[1]
    /\ found_cols.date_col = df_columns[2]
    /\ ExactAliases(CANDIDATE_PRICE) = {}
    /\ found_cols.price_col = df_columns[3]
    /\ found_cols.shares_col = NoCol
    /\ err.cols = df_columns

----------------------------------------------------------------------------
(* combine.py *)

HasUsdLine(file) ==
    \E k \in 1..Len(file) : Contains(USD_KEY, strip(decode(file[k])))

FirstUsdRow(file) ==
    LET k == CHOOSE k \in 1..Len(file) :
                 /\ Contains(USD_KEY, strip(decode(file[k])))
                 /\ \A j \in 1..(k-1) : ~Contains(USD_KEY, strip(decode(file[j])))
    IN  writerow(split(strip(decode(file[k]))))

\* the indexes in 1..n of the files with (want = TRUE) or without a key line
RECURSIVE FilesWhere(_, _)
FilesWhere(n, want) ==
    IF n = 0 THEN << >>
    ELSE IF HasUsdLine(argv[n]) = want
         THEN Append(FilesWhere(n - 1, want), n)
         ELSE FilesWhere(n - 1, want)

\* C12: combine.py terminates on every input.  While a file is being read,
\* no more reads have been made than it has lines plus the one that finds
\* its end: get_usd_row has returned (a row, or None at the end of a file
\* without a "USA,Dollar,USD" line) by then.  Every file without such a line
\* is reported as "no USD entry found" and main goes on with the next file;
\* every file with one gives one output row, that of its first such line;
\* and main returns 1 when some file was reported, else 0.
C12_CombineTerminates ==
    /\ cpc = "get_usd_row" => reads <= Len(argv[path_ix])
    /\ cpc \in {"for", "get_usd_row", "exit"} /\ Len(argv) > 0 =>
          LET n == IF cpc = "get_usd_row" THEN path_ix - 1 ELSE path_ix
          IN  /\ not_found = FilesWhere(n, FALSE)
              /\ Len(stdout_rows) = Len(FilesWhere(n, TRUE))
              /\ \A k \in 1..Len(stdout_rows) :
                    stdout_rows[k] = FirstUsdRow(argv[FilesWhere(n, TRUE)[k]])
              /\ err_code = IF not_found # << >> THEN 1 ELSE 0
    /\ cpc = "exit" /\ Len(argv) > 0 => path_ix = Len(argv)

====
